---- MODULE Spec2Model ----
(***************************************************************************)
(* Frame graph construction (Model::Load, Link::Load), pose resolution     *)
(* (Link::Pose) and document loading (Root::Load) of sdformat.             *)
(*                                                                         *)
(* Rigid transforms are planar: a translation by integers and a rotation   *)
(* by a multiple of a quarter turn.  They are exact, they do not commute,  *)
(* and Pose3d and Matrix4d stay two representations with a conversion in   *)
(* each direction, as in the code.                                         *)
(***************************************************************************)
EXTENDS Integers, Sequences, FiniteSets, TLC

\* ---------------------------------------------------------------- bounds
\* the <world>, <frame>, <link>, <light> and <actor> elements of a document
MaxElems == 3

\* the setters a client calls on a loaded model and its links
MaxCalls == 1

\* ------------------------------------------------------------ transforms
\* ignition::math::Pose3d: position and rotation (quarter turns).
PoseZero == [x |-> 0, y |-> 0, r |-> 0]

PoseT == [x |-> 1, y |-> 0, r |-> 0]

PoseR == [x |-> 0, y |-> 0, r |-> 1]

\* ignition::math::Matrix4d: the homogeneous matrix
\*   | a  b  tx |
\*   | c  d  ty |
\*   | 0  0  1  |
MatIdentity == [a |-> 1, b |-> 0, c |-> 0, d |-> 1, tx |-> 0, ty |-> 0]

Cos(r) == CASE r = 0 -> 1 [] r = 1 -> 0 [] r = 2 -> -1 [] OTHER -> 0

Sin(r) == CASE r = 0 -> 0 [] r = 1 -> 1 [] r = 2 -> 0 [] OTHER -> -1

\* Matrix4d(const Pose3d &)
Matrix4d(p) ==
  [a |-> Cos(p.r), b |-> -Sin(p.r), c |-> Sin(p.r), d |-> Cos(p.r),
   tx |-> p.x, ty |-> p.y]

\* Matrix4d::Pose()
MatPose(m) ==
  [x |-> m.tx, y |-> m.ty,
   r |-> CASE m.a = 1 -> 0 [] m.c = 1 -> 1 [] m.a = -1 -> 2 [] OTHER -> 3]

\* Matrix4d::operator*
MatMul(m, n) ==
  [a |-> m.a * n.a + m.b * n.c,
   b |-> m.a * n.b + m.b * n.d,
   c |-> m.c * n.a + m.d * n.c,
   d |-> m.c * n.b + m.d * n.d,
   tx |-> m.a * n.tx + m.b * n.ty + m.tx,
   ty |-> m.c * n.tx + m.d * n.ty + m.ty]

\* Matrix4d::Inverse(): adjugate over determinant (1 for a rigid transform)
MatInverse(m) ==
  LET det == m.a * m.d - m.b * m.c
      ia == m.d \div det
      ib == (0 - m.b) \div det
      ic == (0 - m.c) \div det
      id == m.a \div det
  IN [a |-> ia, b |-> ib, c |-> ic, d |-> id,
      tx |-> 0 - (ia * m.tx + ib * m.ty),
      ty |-> 0 - (ic * m.tx + id * m.ty)]

\* ------------------------------------------------- ignition::math::graph
\* VertexId and EdgeId count from 0 in insertion order: the vertex with id i
\* is vertices[i + 1], the edge with id e is edges[e + 1].
kNullId == -1

\* MAX_D, the distance Dijkstra gives a vertex it has not reached
MaxD == 1000000

EmptyGraph == [vertices |-> << >>, edges |-> << >>]

VertexIds(g) == 0 .. (Len(g.vertices) - 1)

\* Graph::AddVertex(name, data): names need not be unique
AddVertex(g, name, data) ==
  [g EXCEPT !.vertices = Append(@, [name |-> name, data |-> data])]

\* the id of the vertex the last AddVertex returned
LastVertexId(g) == Len(g.vertices) - 1

\* Graph::Vertices(name): the ids of all vertices of that name
Vertices(g, name) == {i \in VertexIds(g) : g.vertices[i + 1].name = name}

SetMin(S) == CHOOSE m \in S : \A o \in S : m <= o

\* Graph::VertexFromId(id).Data()
VertexData(g, id) == g.vertices[id + 1].data

\* Graph::AddEdge({tail, head}, data): no edge unless both vertices exist
AddEdge(g, tail, head, data) ==
  IF tail \in VertexIds(g) /\ head \in VertexIds(g)
  THEN [g EXCEPT !.edges = Append(@, [tail |-> tail, head |-> head,
                                       data |-> data])]
  ELSE g

\* Graph::IncidentsFrom(u): the edges leaving u, in edge id order
IncidentsFrom(g, u) == {e \in 1 .. Len(g.edges) : g.edges[e].tail = u}

\* Graph::EdgeFromVertices(src, dst): the first edge src -> dst, or NullEdge
\* (0 here)
EdgeFromVertices(g, src, dst) ==
  LET M == {e \in IncidentsFrom(g, src) : g.edges[e].head = dst}
  IN IF M = {} THEN 0 ELSE SetMin(M)

\* std::priority_queue of (cost, vertex) with std::greater: top is the least
PqTop(pq) ==
  CHOOSE t \in pq : \A o \in pq :
    t[1] < o[1] \/ (t[1] = o[1] /\ t[2] <= o[2])

\* the relaxation loop over the edges leaving u, in edge id order
RECURSIVE Relax(_, _, _, _)
Relax(g, u, es, st) ==
  IF es = {} THEN st
  ELSE LET e == SetMin(es)
           v == g.edges[e].head
           nd == st.dist[u][1] + 1
       IN IF st.dist[v][1] > nd
          THEN Relax(g, u, es \ {e},
                     [dist |-> [st.dist EXCEPT ![v] = <<nd, u>>],
                      pq |-> st.pq \cup {<<nd, v>>}])
          ELSE Relax(g, u, es \ {e}, st)

RECURSIVE DijkstraLoop(_, _, _)
DijkstraLoop(g, to, st) ==
  IF st.pq = {} THEN st.dist
  ELSE LET top == PqTop(st.pq)
           u == top[2]
       IN IF to # kNullId /\ to = u THEN st.dist
          ELSE DijkstraLoop(g, to,
                 Relax(g, u, IncidentsFrom(g, u),
                       [dist |-> st.dist, pq |-> st.pq \ {top}]))

\* Dijkstra with an entry only for the vertices it has reached
DijkstraReachedOnly(g, from, to) ==
  IF from \notin VertexIds(g) THEN << >>
  ELSE IF to # kNullId /\ to \notin VertexIds(g) THEN << >>
  ELSE LET dist == DijkstraLoop(g, to,
                     [dist |-> [v \in VertexIds(g) |->
                                  IF v = from THEN <<0, from>>
                                  ELSE <<MaxD, kNullId>>],
                      pq |-> {<<0, from>>}])
       IN [v \in {u \in VertexIds(g) : dist[u][1] < MaxD} |-> dist[v]]

\* ignition::math::graph::Dijkstra(graph, from, to): VertexId -> (cost, prev);
\* the empty map when from or to is no vertex of the graph
Dijkstra(g, from, to) ==
  IF from \notin VertexIds(g) THEN << >>
  ELSE IF to # kNullId /\ to \notin VertexIds(g) THEN << >>
  ELSE DijkstraLoop(g, to,
         [dist |-> [v \in VertexIds(g) |->
                      IF v = from THEN <<0, from>> ELSE <<MaxD, kNullId>>],
          pq |-> {<<0, from>>}])

\* What reading begin()->first of an empty lookup result can give as a
\* vertex id: 0, the element count that libstdc++ keeps where the first
\* key of a map would lie (the id of the first vertex of the graph), or a
\* value that is the id of no vertex.  The third outcome, the process
\* dying, is stated where the lookup is read.
GarbageIds(g) == {0, kNullId}

\* ------------------------------------------------------------ Link::Pose
\* The outcome of one call: kind is "returned", "crashed" (the process died
\* in undefined behaviour) or "spinning" (the walk did not end within the
\* iterations a graph of this size can need).  err: the walk took its error
\* branch; cout, cerr: statements that wrote to std::cout, std::cerr;
\* iters: iterations of the while loop; ub: an empty lookup was read;
\* searched: Dijkstra was called.
Outcome(kind, pose, err, iters, cout, cerr, ub, searched) ==
  [kind |-> kind, pose |-> pose, err |-> err, iters |-> iters,
   cout |-> cout, cerr |-> cerr, ub |-> ub, searched |-> searched]

WalkFuel(g) == Len(g.vertices) + 1

\* The while loop of Link::Pose from the point where `key` is looked up in
\* `result`.  w: [acc, n, cout, cerr, ub], the accumulated transform and the
\* counters so far.
RECURSIVE Walk(_, _, _, _, _, _)
Walk(g, link, src, result, key, w) ==
  IF w.n >= WalkFuel(g)
  THEN {Outcome("spinning", MatPose(w.acc), FALSE, w.n, w.cout, w.cerr,
                w.ub, TRUE)}
  ELSE
    LET found == key \in DOMAIN result
        nexts == IF found THEN {result[key][2]} ELSE GarbageIds(g)
        ub == w.ub \/ ~found
        Step(nextVertex) ==
          LET e == EdgeFromVertices(g, nextVertex, key)
          IN IF e # 0
             THEN
               LET inverse == g.edges[e].data < 0
                   a1 == MatMul(w.acc,
                           IF inverse THEN MatInverse(VertexData(g, key))
                           ELSE VertexData(g, key))
               IN IF nextVertex = src
                  THEN
                    LET a2 == MatMul(a1,
                                IF inverse
                                THEN MatInverse(Matrix4d(link.pose))
                                ELSE Matrix4d(link.pose))
                    IN {Outcome("returned", MatPose(a2), FALSE, w.n + 1,
                                w.cout + 2, w.cerr, ub, TRUE)}
                  ELSE Walk(g, link, src, result, nextVertex,
                            [acc |-> a1, n |-> w.n + 1, cout |-> w.cout + 1,
                             cerr |-> w.cerr, ub |-> ub])
             ELSE {Outcome("returned", MatPose(w.acc), TRUE, w.n + 1,
                           w.cout + 1, w.cerr + 1, ub, TRUE)}
    IN (IF found THEN {}
        ELSE {Outcome("crashed", PoseZero, FALSE, w.n, w.cout, w.cerr,
                      TRUE, TRUE)})
       \cup UNION {Step(nv) : nv \in nexts}

\* Link::Pose(_frame) of `link` on frame graph g: the set of outcomes the
\* call can have (one, unless it runs into undefined behaviour).
LinkPose(g, link, frame) ==
  IF frame = ""
  THEN {Outcome("returned", link.pose, FALSE, 0, 0, 0, FALSE, FALSE)}
  ELSE
    LET S == Vertices(g, link.name)
        D == Vertices(g, frame)
        ub == S = {} \/ D = {}
        srcs == IF S = {} THEN GarbageIds(g) ELSE {SetMin(S)}
        dsts == IF D = {} THEN GarbageIds(g) ELSE {SetMin(D)}
        Run(s, d) ==
          LET result == Dijkstra(g, s, d)
              \* Dijkstra reports a vertex it does not know on std::cerr
              dcerr == IF DOMAIN result = {} THEN 1 ELSE 0
          IN Walk(g, link, s, result, d,
                  [acc |-> MatIdentity, n |-> 0,
                   cout |-> 4 + Cardinality(DOMAIN result),
                   cerr |-> dcerr, ub |-> ub])
    IN (IF ub
        THEN {Outcome("crashed", PoseZero, FALSE, 0, 1, 0, TRUE, FALSE)}
        ELSE {})
       \cup UNION {Run(s, d) : s \in srcs, d \in dsts}

\* ------------------------------------------------------------ Link::Load
\* LinkPrivate as the constructor leaves it
NewLink == [name |-> "", pose |-> PoseZero, poseFrame |-> ""]

\* Link::Load from the reading of the name on, for an element that is a
\* <link>
LinkLoadElement(g, elem, parentName) ==
  LET poseFrame == IF elem.relTo = "" THEN parentName ELSE elem.relTo
      link == [name |-> elem.name, pose |-> elem.pose,
               poseFrame |-> poseFrame]
      errs == IF elem.name = "" THEN <<"ATTRIBUTE_MISSING">> ELSE << >>
      g1 == AddVertex(g, elem.name, Matrix4d(elem.pose))
      vert == LastVertexId(g1)
      parentVertices == Vertices(g1, poseFrame)
      empty == parentVertices = {}
      \* no check that parentVertices has an element
      ub == empty
      parents == IF ub THEN GarbageIds(g1) ELSE {SetMin(parentVertices)}
      Linked(parent) ==
        [crashed |-> FALSE,
         graph |-> AddEdge(AddEdge(g1, parent, vert, -1), vert, parent, 1),
         link |-> link, errors |-> errs, empty |-> empty, ub |-> ub,
         parent |-> parent]
  IN (IF ub
      THEN {[crashed |-> TRUE, graph |-> g1, link |-> link, errors |-> errs,
             empty |-> empty, ub |-> TRUE, parent |-> kNullId]}
      ELSE {})
     \cup {Linked(parent) : parent \in parents}

\* Link::Load without the check of the element's tag
LinkLoadAnyTag(g, elem, parentName) == LinkLoadElement(g, elem, parentName)

\* Link::Load(_sdf, _frameGraph) of a new Link for an element elem = [tag,
\* name, pose, relTo] below a model named parentName: the set of outcomes
\* [crashed, graph, link, errors, empty, ub, parent].  empty: the lookup of
\* the pose frame came back empty; ub: an empty lookup was read; parent: the
\* vertex id the two edges were given.  elem.name is "" for a <link>
\* without a name.  The element has no <visual>, <collision> or <inertial>,
\* and the default inertia is valid.
LinkLoad(g, elem, parentName) ==
  IF elem.tag # "link"
  THEN {[crashed |-> FALSE, graph |-> g, link |-> NewLink,
         errors |-> <<"ELEMENT_INCORRECT_TYPE">>, empty |-> FALSE,
         ub |-> FALSE, parent |-> kNullId]}
  ELSE LinkLoadElement(g, elem, parentName)

\* ----------------------------------------------------------- Model::Load
\* One pass of the loop over edgesToAdd: the outcomes of connecting the
\* frame vertex edge.vert to the vertex its pose frame names.
FrameEdge(g, edge) ==
  LET parentVertices == Vertices(g, edge.poseFrame)
      empty == parentVertices = {}
      ub == empty
      parents == IF ub THEN GarbageIds(g) ELSE {SetMin(parentVertices)}
      Linked(parent) ==
        [crashed |-> FALSE,
         graph |-> AddEdge(AddEdge(g, parent, edge.vert, -1),
                           edge.vert, parent, 1),
         empty |-> empty, ub |-> ub, parent |-> parent]
  IN (IF ub
      THEN {[crashed |-> TRUE, graph |-> g, empty |-> empty, ub |-> TRUE,
             parent |-> kNullId]}
      ELSE {})
     \cup {Linked(parent) : parent \in parents}

\* ------------------------------------------- the Pose-Relative-To graph
\* decls: the frames of a scope, [kind, name, pose, relTo, ...]; the scope's
\* implicit root frame is the one named root.
DeclNames(decls) == {decls[i].name : i \in 1 .. Len(decls)}

\* the frames a frame named n is declared relative to
RelTargets(decls, n) ==
  {decls[i].relTo : i \in {j \in 1 .. Len(decls) : decls[j].name = n}}

RECURSIVE ReachIn(_, _, _)
\* the names reached from the names in S in at most k steps along relTo
ReachIn(decls, S, k) ==
  IF k = 0 THEN S
  ELSE ReachIn(decls, S \cup UNION {RelTargets(decls, n) : n \in S}, k - 1)

\* the names reached from n in one step or more
ReachFrom(decls, n) == ReachIn(decls, RelTargets(decls, n), Len(decls))

OnCycle(decls, n) == n \in ReachFrom(decls, n)

HasCycle(decls) == \E n \in DeclNames(decls) : OnCycle(decls, n)

\* buildPoseRelativeToGraph: a relTo that names no frame of the scope
BuildPoseErrors(decls, root) ==
  IF \E i \in 1 .. Len(decls) :
       decls[i].relTo \notin DeclNames(decls) \cup {root}
  THEN <<"UNRESOLVED_NAME">> ELSE << >>

\* validatePoseRelativeToGraph: cycle detection, then reachability of the
\* root
ValidatePoseErrors(decls, root) ==
  IF HasCycle(decls) THEN <<"POSE_RELATIVE_TO_CYCLE">>
  ELSE IF \E n \in DeclNames(decls) : root \notin ReachFrom(decls, n)
       THEN <<"POSE_RELATIVE_TO_INVALID">>
       ELSE << >>

\* ------------------------------------------ the Frame-Attached-To graph
\* frames: the frames of a scope, [kind, name, attachedTo], each a vertex.
\* The vertex of a name: the first frame of that name, 0 if there is none.
AttachedVertex(frames, name) ==
  LET S == {i \in 1 .. Len(frames) : frames[i].name = name}
  IN IF S = {} THEN 0 ELSE SetMin(S)

\* The head of the outgoing edge of vertex i, 0 if it has none: a link
\* attaches to itself and is where a chain ends.
AttachedEdge(frames, i) ==
  IF frames[i].kind = "link" THEN 0
  ELSE AttachedVertex(frames, frames[i].attachedTo)

\* buildFrameAttachedToGraph: an attachedTo that names no frame of the scope
buildFrameAttachedToGraph(frames) ==
  IF \E i \in 1 .. Len(frames) :
       frames[i].kind # "link" /\ AttachedEdge(frames, i) = 0
  THEN <<"UNRESOLVED_NAME">> ELSE << >>

\* The walk along the outgoing edges from vertex i, path being the vertices
\* on the active path: [cycle, sink].
RECURSIVE AttachedWalk(_, _, _)
AttachedWalk(frames, i, path) ==
  LET n == AttachedEdge(frames, i)
  IN IF n = 0 THEN [cycle |-> FALSE, sink |-> i]
     ELSE IF n \in path THEN [cycle |-> TRUE, sink |-> 0]
     ELSE AttachedWalk(frames, n, path \cup {n})

\* validateFrameAttachedToGraph without its cycle detection
validateFrameAttachedToGraphNoCycles(frames) ==
  IF \E i \in 1 .. Len(frames) :
       LET w == AttachedWalk(frames, i, {i})
       IN ~w.cycle /\ frames[w.sink].kind \notin {"link", "world"}
  THEN <<"FRAME_ATTACHED_TO_INVALID">>
  ELSE << >>

\* validateFrameAttachedToGraph: cycle detection, then the kind of the sink
\* every vertex ends at
validateFrameAttachedToGraph(frames) ==
  IF \E i \in 1 .. Len(frames) : AttachedWalk(frames, i, {i}).cycle
  THEN <<"FRAME_ATTACHED_TO_CYCLE">>
  ELSE IF \E i \in 1 .. Len(frames) :
            frames[AttachedWalk(frames, i, {i}).sink].kind
              \notin {"link", "world"}
       THEN <<"FRAME_ATTACHED_TO_INVALID">>
       ELSE << >>

\* resolution of the body the frame of vertex i is attached to: the name of
\* the sink, "" when there is none
resolveFrameAttachedToBody(frames, i) ==
  LET w == AttachedWalk(frames, i, {i})
  IN IF w.cycle \/ frames[w.sink].kind \notin {"link", "world"} THEN ""
     ELSE frames[w.sink].name

\* The frames of a model for its Frame-Attached-To graph: the model's own
\* frame, attached to the first link, then the <frame> and <link> elements
\* in reading order, a <frame> attached to the model's frame.
ModelAttachedFrames(name, ds) ==
  LET L == {i \in 1 .. Len(ds) : ds[i].kind = "link"}
  IN <<[kind |-> "model", name |-> name,
        attachedTo |-> IF L = {} THEN "" ELSE ds[SetMin(L)].name]>>
     \o [i \in 1 .. Len(ds) |->
          [kind |-> ds[i].kind, name |-> ds[i].name,
           attachedTo |-> IF ds[i].kind = "link" THEN ds[i].name ELSE name]]

\* ----------------------------------------------------------------- state
\* SDF_PROTOCOL_VERSION
SdfProtocolVersion == "1.7"

Versions == {"1.7", "1.6"}

WorldNames == {"w1", "w2"}

\* what a world's load and its graphs can return: nothing; an error of
\* World::Load alone; an error of each of the five steps
WorldCases ==
  {[load |-> << >>, attachedBuild |-> << >>, attachedValidate |-> << >>,
    poseBuild |-> << >>, poseValidate |-> << >>],
   [load |-> <<"LINK_INERTIA_INVALID">>, attachedBuild |-> << >>,
    attachedValidate |-> << >>, poseBuild |-> << >>, poseValidate |-> << >>],
   [load |-> <<"ATTRIBUTE_MISSING">>,
    attachedBuild |-> <<"FRAME_ATTACHED_TO_INVALID">>,
    attachedValidate |-> <<"FRAME_ATTACHED_TO_CYCLE">>,
    poseBuild |-> <<"UNRESOLVED_NAME">>,
    poseValidate |-> <<"POSE_RELATIVE_TO_INVALID">>]}

\* no <light>; a <light> that loads; a <light> whose load returns an error
LightCases ==
  {[present |-> FALSE, errors |-> << >>],
   [present |-> TRUE, errors |-> << >>],
   [present |-> TRUE, errors |-> <<"ATTRIBUTE_MISSING">>]}

ActorCases ==
  {[present |-> FALSE, errors |-> << >>],
   [present |-> TRUE, errors |-> << >>],
   [present |-> TRUE, errors |-> <<"ATTRIBUTE_INVALID">>]}

ModelNames == {"M"}

ModelPoses == {PoseT}

FrameNames == {"X", "Y"}

FramePoses == {PoseT}

\* pose frames a <frame> may name; "" is a <frame> that names none
FrameRelTo == {"", "M", "X", "Y", "A"}

\* "": a <link> without a name attribute
LinkNames == {"", "A", "B"}

LinkPoses == {PoseR}

\* pose frames a <link> may name; "" is a <link> that names none.  With
\* the links named in either order, "A" gives a link relative to itself, to
\* an earlier link, to a later link and to no link at all.
LinkRelTo == {"", "A", "X"}

\* the frames a pose query may name
QueryFrames == {"", "M", "A", "B", "X", "Y"}

NoQuery == [link |-> 0, frame |-> "", out |-> [kind |-> "none"]]

\* no client has called Link::Load
NoLoad == [tag |-> "none"]

\* Model::Load has not returned
NotLoaded == [loaded |-> FALSE]

\* the scope's graph has not been built
NotBuilt == [built |-> FALSE, build |-> << >>, validate |-> << >>]

\* no frame's body has been resolved; before is "-" when the frame was
\* not resolved before
NoBody == [frame |-> 0, body |-> "", before |-> "-"]

\* the frames a scope may hold for its Frame-Attached-To graph: the
\* model's frame M, a link A, explicit frames X and Y, and what M, X and Y
\* are attached to ("Z" names no frame)
AttachedFrames ==
  {[kind |-> "link", name |-> "A", attachedTo |-> "A"]}
  \cup {[kind |-> k[1], name |-> k[2], attachedTo |-> t] :
          k \in {<<"model", "M">>, <<"frame", "X">>, <<"frame", "Y">>},
          t \in {"M", "A", "X", "Y", "Z"}}

VARIABLES
  pc,          \* where Root::Load stands, "done" once it has returned
  sdf,         \* the version attribute of RootPrivate::sdf, as Get gives it
  version,     \* RootPrivate::version
  worlds,      \* RootPrivate::worlds, with each world's two graphs
  hasModel,    \* RootPrivate::model is set
  hasLight,    \* RootPrivate::light is set
  hasActor,    \* RootPrivate::actor is set
  worldFrameAttachedToGraphs,  \* RootPrivate::worldFrameAttachedToGraphs
  worldPoseRelativeToGraphs,   \* RootPrivate::worldPoseRelativeToGraphs
  lightErrors, \* what Light::Load returned
  actorErrors, \* what Actor::Load returned
  errors,      \* the Errors of Root::Load
  mName,       \* ModelPrivate::name
  mPose,       \* ModelPrivate::pose
  mPoseFrame,  \* ModelPrivate::poseFrame
  links,       \* ModelPrivate::links
  mErrors,     \* the Errors of Model::Load
  frameGraph,  \* ModelPrivate::frameGraph, shared with every link
  edgesToAdd,  \* the edgesToAdd of Model::Load
  edgeAt,      \* how many entries of edgesToAdd the last loop has done
  decls,       \* the <frame> and <link> elements read, in reading order
  lastQuery,   \* the last Link::Pose call and its outcome
  aFrames,     \* the frames of a scope given to buildFrameAttachedToGraph
  aErrors,     \* what building and validating that scope's graph returned
  aBody,       \* the last resolution of a frame's body, and the one before
  mTag,        \* the tag of the element a client gave Model::Load
  lastLoad,    \* the Link::Load a client called on a new Link
  atLoad,      \* the model as it was when Model::Load returned
  calls        \* the setters a client has called since

worldGraphs == <<worldFrameAttachedToGraphs, worldPoseRelativeToGraphs>>

rootVars == <<sdf, version, worlds, hasModel, hasLight, hasActor, worldGraphs,
              lightErrors, actorErrors, errors>>

modelVars == <<mName, mPose, mPoseFrame, links, mErrors, frameGraph,
               edgesToAdd, edgeAt, decls>>

attachedVars == <<aFrames, aErrors, aBody>>

clientVars == <<mTag, lastLoad, atLoad, calls>>

auxVars == <<attachedVars, clientVars>>

vars == <<pc, rootVars, modelVars, lastQuery, auxVars>>

Bool(b) == IF b THEN 1 ELSE 0

\* the elements read so far from the document
NumElems == Len(worlds) + Len(decls) + Bool(hasLight) + Bool(hasActor)

Init ==
  /\ pc = "start"
  /\ sdf = [first |-> "", second |-> FALSE]
  /\ version = ""
  /\ worlds = << >>
  /\ hasModel = FALSE
  /\ hasLight = FALSE
  /\ hasActor = FALSE
  /\ worldFrameAttachedToGraphs = << >>
  /\ worldPoseRelativeToGraphs = << >>
  /\ lightErrors = << >>
  /\ actorErrors = << >>
  /\ errors = << >>
  /\ mName = ""
  /\ mPose = PoseZero
  /\ mPoseFrame = ""
  /\ links = << >>
  /\ mErrors = << >>
  /\ frameGraph = EmptyGraph
  /\ edgesToAdd = << >>
  /\ edgeAt = 0
  /\ decls = << >>
  /\ lastQuery = NoQuery
  /\ aFrames = << >>
  /\ aErrors = NotBuilt
  /\ aBody = NoBody
  /\ mTag = "none"
  /\ lastLoad = NoLoad
  /\ atLoad = NotLoaded
  /\ calls = 0

\* ------------------------------------------------------------ Root::Load
\* VersionCheck without its comparison with SDF_PROTOCOL_VERSION
VersionCheckAnyVersion(versionPair, stored) ==
  IF ~versionPair.second
  THEN [stop |-> TRUE, errors |-> <<"ATTRIBUTE_MISSING">>, version |-> stored]
  ELSE [stop |-> FALSE, errors |-> << >>, version |-> versionPair.first]

\* The version check of Root::Load(SDFPtr): versionPair is what
\* Get<std::string>("version") gave, [first: the value, second: present].
\* The outcome is [stop, errors, version].
VersionCheck(versionPair, stored) ==
  IF ~versionPair.second
  THEN [stop |-> TRUE, errors |-> <<"ATTRIBUTE_MISSING">>, version |-> stored]
  ELSE IF SdfProtocolVersion # versionPair.first
  THEN [stop |-> TRUE, errors |-> <<"ATTRIBUTE_INVALID">>, version |-> stored]
  ELSE [stop |-> FALSE, errors |-> << >>, version |-> versionPair.first]

RootLoadVersion(versionPair) ==
  /\ pc = "start"
  /\ sdf' = versionPair
  /\ LET c == VersionCheck(versionPair, version)
     IN /\ errors' = c.errors
        /\ version' = c.version
        /\ pc' = IF c.stop THEN "done" ELSE "worlds"
  /\ UNCHANGED <<worlds, hasModel, hasLight, hasActor, worldGraphs,
                 lightErrors, actorErrors, modelVars, lastQuery, auxVars>>

\* addFrameAttachedToGraph keeping the graph only of an object without
\* errors
addFrameAttachedToGraphIfValid(graphList, buildErrors, validateErrors, errs) ==
  [list |-> IF errs \o buildErrors \o validateErrors = << >>
            THEN Append(graphList, [built |-> TRUE, validated |-> TRUE])
            ELSE graphList,
   errors |-> errs \o buildErrors \o validateErrors,
   graph |-> Len(graphList) + 1]

\* addFrameAttachedToGraph(_graphList, _domObj, _errors): buildErrors and
\* validateErrors are what buildFrameAttachedToGraph and
\* validateFrameAttachedToGraph return for the object.  The outcome is
\* [list, errors, graph]: the list with the new graph at its end, _errors
\* with both results appended, and the graph handed back (its place in
\* the list).
addFrameAttachedToGraph(graphList, buildErrors, validateErrors, errs) ==
  [list |-> Append(graphList, [built |-> TRUE, validated |-> TRUE]),
   errors |-> errs \o buildErrors \o validateErrors,
   graph |-> Len(graphList) + 1]

\* addPoseRelativeToGraph(_graphList, _domObj, _errors)
addPoseRelativeToGraph(graphList, buildErrors, validateErrors, errs) ==
  [list |-> Append(graphList, [built |-> TRUE, validated |-> TRUE]),
   errors |-> errs \o buildErrors \o validateErrors,
   graph |-> Len(graphList) + 1]

\* Root::WorldNameExists
WorldNameExists(ws, name) == \E i \in 1 .. Len(ws) : ws[i].name = name

\* What one pass of the world loop adds to the errors: worldErrors are the
\* errors of World::Load and of building and validating its two graphs.
WorldLoopErrors(ws, name, worldErrors) ==
  IF worldErrors = << >>
  THEN IF WorldNameExists(ws, name)
       THEN <<"DUPLICATE_NAME">> ELSE << >>
  ELSE worldErrors \o <<"ELEMENT_INVALID">>

\* One pass of the loop over the <world> elements.  c: what the world's
\* load and the building and validating of its graphs return, [load,
\* attachedBuild, attachedValidate, poseBuild, poseValidate].
RootLoadWorld(name, c) ==
  /\ pc = "worlds"
  /\ NumElems < MaxElems
  /\ LET a == addFrameAttachedToGraph(worldFrameAttachedToGraphs,
                 c.attachedBuild, c.attachedValidate, c.load)
         p == addPoseRelativeToGraph(worldPoseRelativeToGraphs,
                 c.poseBuild, c.poseValidate, a.errors)
     IN /\ worldFrameAttachedToGraphs' = a.list
        /\ worldPoseRelativeToGraphs' = p.list
        /\ errors' = errors \o WorldLoopErrors(worlds, name, p.errors)
        /\ worlds' = Append(worlds, [name |-> name,
                                     frameAttachedToGraph |-> a.graph,
                                     poseRelativeToGraph |-> p.graph,
                                     loadErrors |-> p.errors])
  /\ UNCHANGED <<pc, sdf, version, hasModel, hasLight, hasActor, lightErrors,
                 actorErrors, modelVars, lastQuery, auxVars>>

\* Model::Load(_sdf) of a new Model up to its loop over the <frame>
\* elements, for an element [tag, name, pose]: [stop, errors, name, pose,
\* graph].  The model has no frame graph yet and makes one.
ModelLoadElement(elem) ==
  IF elem.tag # "model"
  THEN [stop |-> TRUE, errors |-> <<"ELEMENT_INCORRECT_TYPE">>,
        name |-> "", pose |-> PoseZero, graph |-> EmptyGraph]
  ELSE [stop |-> FALSE,
        errors |-> IF elem.name = "" THEN <<"ATTRIBUTE_MISSING">>
                   ELSE << >>,
        name |-> elem.name, pose |-> elem.pose,
        graph |-> AddVertex(EmptyGraph, elem.name, Matrix4d(elem.pose))]

\* The <model> element is met: Root::Load makes the Model and Model::Load
\* runs up to its loop over the <frame> elements.
ModelLoadBegin(name, pose) ==
  /\ pc = "worlds"
  /\ hasModel' = TRUE
  /\ LET h == ModelLoadElement([tag |-> "model", name |-> name,
                                pose |-> pose])
     IN /\ mName' = h.name
        /\ mPose' = h.pose
        /\ mErrors' = h.errors
        /\ frameGraph' = h.graph
  /\ pc' = "frames"
  /\ UNCHANGED <<sdf, version, worlds, hasLight, hasActor, worldGraphs,
                 lightErrors, actorErrors, errors, mPoseFrame,
                 links, edgesToAdd, edgeAt, decls, lastQuery, auxVars>>

\* one pass of the loop over the <frame> elements of Model::Load
ModelLoadFrame(frameName, poseValue, poseFrame) ==
  /\ pc = "frames"
  /\ NumElems < MaxElems
  /\ frameGraph' = AddVertex(frameGraph, frameName, Matrix4d(poseValue))
  /\ edgesToAdd' = Append(edgesToAdd, [vert |-> LastVertexId(frameGraph'),
                                       poseFrame |-> poseFrame])
  /\ decls' = Append(decls, [kind |-> "frame", name |-> frameName,
                             pose |-> poseValue, relTo |-> poseFrame,
                             vert |-> LastVertexId(frameGraph'),
                             empty |-> FALSE, ub |-> FALSE,
                             parent |-> kNullId])
  /\ UNCHANGED <<pc, rootVars, mName, mPose, mPoseFrame, links, mErrors,
                 edgeAt, lastQuery, auxVars>>

\* What loadUniqueRepeated<Link> does with a link once it is loaded, with
\* the errors loadErrors: [links, errors] after it.
KeepUnique(ls, link, loadErrors) ==
  IF loadErrors # << >> THEN [links |-> ls, errors |-> loadErrors]
  ELSE IF \E i \in 1 .. Len(ls) : ls[i].name = link.name
  THEN [links |-> ls, errors |-> <<"DUPLICATE_NAME">>]
  ELSE [links |-> Append(ls, link), errors |-> << >>]

\* one pass of the loop of loadUniqueRepeated<Link>: Link::Load, then the
\* check of the name
ModelLoadLink(elem) ==
  /\ pc \in {"frames", "links"}
  /\ NumElems < MaxElems
  /\ \E o \in LinkLoad(frameGraph, elem, mName) :
       /\ frameGraph' = o.graph
       /\ decls' = Append(decls, [kind |-> "link", name |-> elem.name,
                                  pose |-> elem.pose,
                                  relTo |-> o.link.poseFrame,
                                  vert |-> LastVertexId(o.graph),
                                  empty |-> o.empty, ub |-> o.ub,
                                  parent |-> o.parent])
       /\ IF o.crashed
          THEN /\ pc' = "crashed"
               /\ UNCHANGED <<links, mErrors>>
          ELSE /\ pc' = "links"
               /\ links' = KeepUnique(links, o.link, o.errors).links
               /\ mErrors' = mErrors
                               \o KeepUnique(links, o.link, o.errors).errors
  /\ UNCHANGED <<rootVars, mName, mPose, mPoseFrame, edgesToAdd, edgeAt,
                 lastQuery, auxVars>>

\* one pass of the loop over edgesToAdd that ends Model::Load
ModelLoadEdge ==
  /\ pc \in {"frames", "links", "edges"}
  /\ edgeAt < Len(edgesToAdd)
  /\ \E o \in FrameEdge(frameGraph, edgesToAdd[edgeAt + 1]) :
       /\ frameGraph' = o.graph
       /\ decls' = [i \in 1 .. Len(decls) |->
                      IF decls[i].kind = "frame"
                         /\ decls[i].vert = edgesToAdd[edgeAt + 1].vert
                      THEN [decls[i] EXCEPT !.empty = o.empty, !.ub = o.ub,
                                            !.parent = o.parent]
                      ELSE decls[i]]
       /\ pc' = IF o.crashed THEN "crashed" ELSE "edges"
  /\ edgeAt' = edgeAt + 1
  /\ UNCHANGED <<rootVars, mName, mPose, mPoseFrame, links, mErrors,
                 edgesToAdd, lastQuery, auxVars>>

\* Model::Load returns; Root::Load takes its errors, then builds and
\* validates the model's graphs and hands them to the model.
RootLoadModelGraphs ==
  /\ pc \in {"frames", "links", "edges"}
  /\ edgeAt = Len(edgesToAdd)
  /\ errors' = errors \o mErrors
                 \o buildFrameAttachedToGraph(ModelAttachedFrames(mName, decls))
                 \o validateFrameAttachedToGraph(
                      ModelAttachedFrames(mName, decls))
                 \o BuildPoseErrors(decls, mName)
                 \o ValidatePoseErrors(decls, mName)
  /\ pc' = "lights"
  /\ UNCHANGED <<sdf, version, worlds, hasModel, hasLight, hasActor,
                 worldGraphs, lightErrors, actorErrors, modelVars, lastQuery, auxVars>>

\* The <light> and the <actor> of the document, and Root::Load returns.
\* light, actor: [present, errors], whether the document has the element
\* and what its Load returns.
RootLoadLightActor(light, actor) ==
  /\ pc \in {"worlds", "lights"}
  /\ NumElems + Bool(light.present) + Bool(actor.present) <= MaxElems
  /\ hasLight' = light.present
  /\ lightErrors' = IF light.present THEN light.errors ELSE << >>
  /\ hasActor' = actor.present
  /\ actorErrors' = IF actor.present THEN actor.errors ELSE << >>
  /\ errors' = errors \o lightErrors' \o actorErrors'
  /\ pc' = "done"
  /\ UNCHANGED <<sdf, version, worlds, hasModel, worldGraphs, modelVars,
                 lastQuery, auxVars>>

\* the model is loaded: Root::Load has returned with a model, or the
\* Model::Load a client called has returned
Loaded == (pc = "done" /\ hasModel) \/ pc = "loaded"

\* A client of the loaded document calls Link::Pose on the i-th link.  The
\* call leaves the document as it is, so a second call would start from the
\* state the first started from: one call is followed per behaviour.
PoseQuery(i, frame) ==
  /\ Loaded
  /\ lastQuery = NoQuery
  /\ i \in 1 .. Len(links)
  /\ \E o \in LinkPose(frameGraph, links[i], frame) :
       /\ lastQuery' = [link |-> i, frame |-> frame, out |-> o]
       /\ pc' = IF o.kind = "returned" THEN pc ELSE "crashed"
  /\ UNCHANGED <<rootVars, modelVars, auxVars>>

Next ==
  \/ \E second \in BOOLEAN, first \in Versions :
       RootLoadVersion([first |-> first, second |-> second])
  \/ \E name \in WorldNames, c \in WorldCases : RootLoadWorld(name, c)
  \/ \E name \in ModelNames, pose \in ModelPoses : ModelLoadBegin(name, pose)
  \/ \E name \in FrameNames, pose \in FramePoses, relTo \in FrameRelTo :
       ModelLoadFrame(name, pose, relTo)
  \/ \E name \in LinkNames, pose \in LinkPoses, relTo \in LinkRelTo :
       ModelLoadLink([tag |-> "link", name |-> name, pose |-> pose,
                      relTo |-> relTo])
  \/ ModelLoadEdge
  \/ RootLoadModelGraphs
  \/ \E light \in LightCases, actor \in ActorCases :
       RootLoadLightActor(light, actor)
  \/ \E i \in 1 .. MaxElems, frame \in QueryFrames : PoseQuery(i, frame)

Spec == Init /\ [][Next]_vars

\* ------------------------------------- a client of Model and of Link
\* A client makes a Model and calls Model::Load(_sdf) with an element of
\* its own: Model::Load runs up to its loop over the <frame> elements, or
\* returns at the check of the tag.
ClientModelLoad(elem) ==
  /\ pc = "start"
  /\ mTag = "none"
  /\ mTag' = elem.tag
  /\ LET h == ModelLoadElement(elem)
     IN /\ mName' = h.name
        /\ mPose' = h.pose
        /\ mErrors' = h.errors
        /\ frameGraph' = h.graph
        /\ pc' = IF h.stop THEN "loaded" ELSE "frames"
        /\ atLoad' = IF h.stop
                     THEN [loaded |-> TRUE, links |-> links,
                           frameGraph |-> h.graph]
                     ELSE atLoad
  /\ UNCHANGED <<rootVars, mPoseFrame, links, edgesToAdd, edgeAt, decls,
                 lastQuery, attachedVars, lastLoad, calls>>

\* the Model::Load the client called returns
ModelLoadReturn ==
  /\ pc \in {"frames", "links", "edges"}
  /\ edgeAt = Len(edgesToAdd)
  /\ pc' = "loaded"
  /\ atLoad' = [loaded |-> TRUE, links |-> links, frameGraph |-> frameGraph]
  /\ UNCHANGED <<rootVars, modelVars, lastQuery, attachedVars, mTag, lastLoad,
                 calls>>

\* The client makes a Link and calls Link::Load(_sdf, _frameGraph) with an
\* element below the model's and the frame graph of the model.  The client
\* followed is one that loads the model, then this link, then calls the
\* setters, then Link::Pose.
ClientLinkLoad(elem) ==
  /\ pc = "loaded"
  /\ lastLoad = NoLoad
  /\ calls = 0
  /\ lastQuery = NoQuery
  /\ \E o \in LinkLoad(frameGraph, elem, mName) :
       /\ frameGraph' = o.graph
       /\ lastLoad' = [tag |-> elem.tag, errors |-> o.errors,
                       before |-> frameGraph, link |-> o.link,
                       crashed |-> o.crashed]
       /\ pc' = IF o.crashed THEN "crashed" ELSE "loaded"
  /\ UNCHANGED <<rootVars, mName, mPose, mPoseFrame, links, mErrors,
                 edgesToAdd, edgeAt, decls, lastQuery, attachedVars, mTag,
                 atLoad, calls>>

\* Link::SetName on the i-th link
LinkSetName(i, name) ==
  /\ pc = "loaded" /\ lastQuery = NoQuery /\ calls < MaxCalls
  /\ i \in 1 .. Len(links)
  /\ links' = [links EXCEPT ![i].name = name]
  /\ calls' = calls + 1
  /\ UNCHANGED <<pc, rootVars, mName, mPose, mPoseFrame, mErrors, frameGraph,
                 edgesToAdd, edgeAt, decls, lastQuery, attachedVars, mTag,
                 lastLoad, atLoad>>

\* Link::SetPose on the i-th link
LinkSetPose(i, pose) ==
  /\ pc = "loaded" /\ lastQuery = NoQuery /\ calls < MaxCalls
  /\ i \in 1 .. Len(links)
  /\ links' = [links EXCEPT ![i].pose = pose]
  /\ calls' = calls + 1
  /\ UNCHANGED <<pc, rootVars, mName, mPose, mPoseFrame, mErrors, frameGraph,
                 edgesToAdd, edgeAt, decls, lastQuery, attachedVars, mTag,
                 lastLoad, atLoad>>

\* Link::SetPoseFrame on the i-th link
LinkSetPoseFrame(i, frame) ==
  /\ pc = "loaded" /\ lastQuery = NoQuery /\ calls < MaxCalls
  /\ i \in 1 .. Len(links)
  /\ links' = [links EXCEPT ![i].poseFrame = frame]
  /\ calls' = calls + 1
  /\ UNCHANGED <<pc, rootVars, mName, mPose, mPoseFrame, mErrors, frameGraph,
                 edgesToAdd, edgeAt, decls, lastQuery, attachedVars, mTag,
                 lastLoad, atLoad>>

\* Model::SetName
ModelSetName(name) ==
  /\ pc = "loaded" /\ lastQuery = NoQuery /\ calls < MaxCalls
  /\ mName' = name
  /\ calls' = calls + 1
  /\ UNCHANGED <<pc, rootVars, mPose, mPoseFrame, links, mErrors, frameGraph,
                 edgesToAdd, edgeAt, decls, lastQuery, attachedVars, mTag,
                 lastLoad, atLoad>>

\* Model::SetPose
ModelSetPose(pose) ==
  /\ pc = "loaded" /\ lastQuery = NoQuery /\ calls < MaxCalls
  /\ mPose' = pose
  /\ calls' = calls + 1
  /\ UNCHANGED <<pc, rootVars, mName, mPoseFrame, links, mErrors, frameGraph,
                 edgesToAdd, edgeAt, decls, lastQuery, attachedVars, mTag,
                 lastLoad, atLoad>>

\* Model::SetPoseFrame
ModelSetPoseFrame(frame) ==
  /\ pc = "loaded" /\ lastQuery = NoQuery /\ calls < MaxCalls
  /\ mPoseFrame' = frame
  /\ calls' = calls + 1
  /\ UNCHANGED <<pc, rootVars, mName, mPose, links, mErrors, frameGraph,
                 edgesToAdd, edgeAt, decls, lastQuery, attachedVars, mTag,
                 lastLoad, atLoad>>

ClientNext ==
  \/ \E tag \in {"model", "world"}, name \in ModelNames, pose \in ModelPoses :
       ClientModelLoad([tag |-> tag, name |-> name, pose |-> pose])
  \/ \E name \in {"X"}, pose \in FramePoses, relTo \in {"", "A"} :
       ModelLoadFrame(name, pose, relTo)
  \/ \E name \in {"A", "B"}, pose \in LinkPoses, relTo \in {"", "A"} :
       ModelLoadLink([tag |-> "link", name |-> name, pose |-> pose,
                      relTo |-> relTo])
  \/ ModelLoadEdge
  \/ ModelLoadReturn
  \/ \E tag \in {"link", "joint"}, relTo \in {"", "A"} :
       ClientLinkLoad([tag |-> tag, name |-> "B", pose |-> PoseT,
                       relTo |-> relTo])
  \/ \E i \in 1 .. MaxElems : LinkSetName(i, "B")
  \/ \E i \in 1 .. MaxElems : LinkSetPose(i, PoseT)
  \/ \E i \in 1 .. MaxElems : LinkSetPoseFrame(i, "X")
  \/ ModelSetName("N")
  \/ ModelSetPose(PoseZero)
  \/ ModelSetPoseFrame("X")
  \/ \E i \in 1 .. MaxElems, frame \in {"M", "A"} : PoseQuery(i, frame)

ClientSpec == Init /\ [][ClientNext]_vars

\* ------------------------------ a scope and its Frame-Attached-To graph
\* a frame of the scope is read
AttachedAddFrame(f) ==
  /\ ~aErrors.built
  /\ Len(aFrames) < MaxElems
  /\ aFrames' = Append(aFrames, f)
  /\ UNCHANGED <<pc, rootVars, modelVars, lastQuery, clientVars, aErrors, aBody>>

\* the graph of the scope is built and validated (part_002:80-85)
AttachedBuild ==
  /\ ~aErrors.built
  /\ aFrames # << >>
  /\ aErrors' = [built |-> TRUE,
                 build |-> buildFrameAttachedToGraph(aFrames),
                 validate |-> validateFrameAttachedToGraph(aFrames)]
  /\ UNCHANGED <<pc, rootVars, modelVars, lastQuery, clientVars, aFrames, aBody>>

\* the body of the i-th frame is resolved, once or once more
AttachedResolve(i) ==
  /\ aErrors.built
  /\ i \in 1 .. Len(aFrames)
  /\ aBody.frame \in {0, i}
  /\ aBody' = [frame |-> i,
               body |-> resolveFrameAttachedToBody(aFrames, i),
               before |-> IF aBody.frame = i THEN aBody.body ELSE "-"]
  /\ UNCHANGED <<pc, rootVars, modelVars, lastQuery, clientVars, aFrames, aErrors>>

AttachedNext ==
  \/ \E f \in AttachedFrames : AttachedAddFrame(f)
  \/ AttachedBuild
  \/ \E i \in 1 .. MaxElems : AttachedResolve(i)

AttachedSpec == Init /\ [][AttachedNext]_vars

\* ---------------------------------------------------------------- claims
Range(seq) == {seq[i] : i \in 1 .. Len(seq)}

\* a Link::Pose call has been made
Queried == lastQuery.out.kind # "none"

\* the link the last call was made on
QLink == links[lastQuery.link]

\* no lookup of a pose frame came back empty while the model was loaded
CleanLoad == \A i \in 1 .. Len(decls) : ~decls[i].empty

\* the vertices reached from the vertices in S along at most k edges
RECURSIVE GraphReach(_, _, _)
GraphReach(g, S, k) ==
  IF k = 0 THEN S
  ELSE GraphReach(g,
         S \cup {g.edges[e].head :
                   e \in {x \in 1 .. Len(g.edges) : g.edges[x].tail \in S}},
         k - 1)

Connected(g, s, d) == d \in GraphReach(g, {s}, Len(g.vertices))

\* Link::Pose of the i-th link for frame f has one outcome: it finds both
\* vertices, they are connected, and it returns from the walk's last edge
Resolves(i, f) ==
  /\ f # ""
  /\ Vertices(frameGraph, links[i].name) # {}
  /\ Vertices(frameGraph, f) # {}
  /\ \A o \in LinkPose(frameGraph, links[i], f) :
       o.kind = "returned" /\ ~o.err /\ ~o.ub

PoseOf(i, f) == (CHOOSE o \in LinkPose(frameGraph, links[i], f) : TRUE).pose

\* the composition of two poses, p applied in the frame that q gives
Compose(q, p) == MatPose(MatMul(Matrix4d(q), Matrix4d(p)))

\* C1: Root::Load of a document whose version attribute is present and is
\* not SDF_PROTOCOL_VERSION returns exactly one error, ATTRIBUTE_INVALID,
\* and leaves the (new) Root without children: no world and none of a
\* world's graphs, no model, light or actor, no frame graph, and the stored
\* version string as it was.
C1_VersionMismatch ==
  (sdf.second /\ sdf.first # SdfProtocolVersion) =>
    /\ pc = "done"
    /\ errors = <<"ATTRIBUTE_INVALID">>
    /\ worlds = << >>
    /\ ~hasModel /\ ~hasLight /\ ~hasActor
    /\ frameGraph = EmptyGraph
    /\ version = ""

C1_Witness ==
  pc = "done" /\ sdf.second /\ sdf.first = "1.6"
  /\ errors = <<"ATTRIBUTE_INVALID">>

\* C2: Link::Pose of a link for its own name returns the identity transform
\* and does not take the error branch of the path walk.
C2_SelfPoseIdentity ==
  (Queried /\ CleanLoad /\ lastQuery.frame = QLink.name) =>
    /\ lastQuery.out.kind = "returned"
    /\ lastQuery.out.pose = PoseZero
    /\ ~lastQuery.out.err

\* C3: for links A and B and a frame C of one frame graph, the three of
\* them distinct and all three pose queries resolving, the pose of A
\* relative to C is the pose of A relative to B composed with the pose of B
\* relative to C (in either order of writing the composition).
C3_Transitivity ==
  (Queried /\ CleanLoad /\ lastQuery.frame # "") =>
    \A j \in 1 .. Len(links) :
      LET a == lastQuery.link
          c == lastQuery.frame
          b == links[j].name
      IN (/\ links[a].name # b /\ links[a].name # c /\ b # c
          /\ Resolves(a, c) /\ Resolves(a, b) /\ Resolves(j, c)) =>
           \/ lastQuery.out.pose = Compose(PoseOf(j, c), PoseOf(a, b))
           \/ lastQuery.out.pose = Compose(PoseOf(a, b), PoseOf(j, c))

\* C4: Link::Pose of a link for the frame its pose is relative to returns
\* the link's own local pose, with nothing of that frame's pose in it.
C4_PoseInParent ==
  (/\ Queried
   /\ CleanLoad
   /\ lastQuery.frame = QLink.poseFrame
   /\ lastQuery.frame # QLink.name
   /\ Resolves(lastQuery.link, lastQuery.frame)) =>
    lastQuery.out.pose = QLink.pose

\* C5: when the pose frame of a link or of an explicit frame names no
\* vertex of the frame graph, the load reports UNRESOLVED_NAME, adds no
\* edge for it and does not read the empty lookup result.
C5_UnresolvedReported ==
  \A i \in 1 .. Len(decls) :
    decls[i].empty =>
      /\ ~decls[i].ub
      /\ decls[i].parent = kNullId
      /\ pc # "crashed"
      /\ "UNRESOLVED_NAME" \in Range(mErrors)

\* C6: a pose query whose source or destination names no vertex of the
\* frame graph reads no empty lookup result, does not go on to the
\* shortest-path search and returns no transform.
C6_AbsentFrameFails ==
  (/\ Queried
   /\ lastQuery.frame # ""
   /\ \/ Vertices(frameGraph, QLink.name) = {}
      \/ Vertices(frameGraph, lastQuery.frame) = {}) =>
    /\ ~lastQuery.out.ub
    /\ ~lastQuery.out.searched
    /\ lastQuery.out.kind # "returned"

\* C7: a pose query between two vertices of the frame graph that no path
\* connects returns no transform.
C7_NoPathFails ==
  (/\ Queried
   /\ CleanLoad
   /\ lastQuery.frame # ""
   /\ Vertices(frameGraph, QLink.name) # {}
   /\ Vertices(frameGraph, lastQuery.frame) # {}
   /\ ~Connected(frameGraph, SetMin(Vertices(frameGraph, QLink.name)),
                 SetMin(Vertices(frameGraph, lastQuery.frame)))) =>
    lastQuery.out.kind # "returned"

\* C8: a Link::Pose call writes nothing to std::cout or std::cerr.
C8_PoseWritesNothing ==
  Queried => (lastQuery.out.cout = 0 /\ lastQuery.out.cerr = 0)

\* the first element read under the name n, 0 if there is none
DeclOf(n) ==
  LET D == {i \in 1 .. Len(decls) : decls[i].name = n}
  IN IF D = {} THEN 0 ELSE SetMin(D)

\* every frame from n up to the model's frame is declared, within k steps
RECURSIVE ChainToRoot(_, _)
ChainToRoot(n, k) ==
  \/ n = mName
  \/ /\ k > 0
     /\ DeclOf(n) # 0
     /\ ChainToRoot(decls[DeclOf(n)].relTo, k - 1)

\* the pose of the frame named n in the model's frame: the local poses from
\* the root down to n, composed
RECURSIVE PoseInRoot(_, _)
PoseInRoot(n, k) ==
  IF n = mName \/ k = 0 \/ DeclOf(n) = 0 THEN MatIdentity
  ELSE MatMul(PoseInRoot(decls[DeclOf(n)].relTo, k - 1),
              Matrix4d(decls[DeclOf(n)].pose))

\* the frame name Model::Pose(_frame) resolves the model against
ModelPoseFrameArg(frame) == IF frame = "" THEN mPoseFrame ELSE frame

\* C9: Link::Pose("") of a link whose pose is relative to a frame other than
\* the root returns the link's pose composed up to the root, and
\* Model::Pose("") resolves against a set frame name.
C9_EmptyFrameIsRoot ==
  (/\ Queried
   /\ CleanLoad
   /\ lastQuery.frame = ""
   /\ QLink.poseFrame # mName
   /\ ChainToRoot(QLink.name, Len(decls))) =>
    /\ lastQuery.out.pose = MatPose(PoseInRoot(QLink.name, Len(decls)))
    /\ ModelPoseFrameArg("") # ""

\* the model holds frames X relative to Y and Y relative to X
MutualFrames ==
  \E i, j \in 1 .. Len(decls) :
    /\ decls[i].kind = "frame" /\ decls[j].kind = "frame"
    /\ decls[i].name # decls[j].name
    /\ decls[i].relTo = decls[j].name
    /\ decls[j].relTo = decls[i].name

\* C10: when a model holds frames X relative to Y and Y relative to X, the
\* errors Root::Load returns hold POSE_RELATIVE_TO_CYCLE and no pose query on
\* the model returns a transform.
C10_CycleRejected ==
  (pc = "done" /\ MutualFrames) =>
    /\ "POSE_RELATIVE_TO_CYCLE" \in Range(errors)
    /\ lastQuery.out.kind # "returned"

\* the vertices reached from the vertices in S along at most k edges of
\* the Frame-Attached-To graph
RECURSIVE AttachedReach(_, _, _)
AttachedReach(frames, S, k) ==
  IF k = 0 THEN S
  ELSE AttachedReach(frames,
         S \cup ({AttachedEdge(frames, i) : i \in S} \ {0}), k - 1)

\* the vertices reached from i along one edge or more
AttachedBelow(frames, i) ==
  AttachedReach(frames, {AttachedEdge(frames, i)} \ {0}, Len(frames))

\* the sinks the chain from i ends at, in at most Len(frames) hops
AttachedSinks(frames, i) ==
  {j \in AttachedReach(frames, {i}, Len(frames)) :
     AttachedEdge(frames, j) = 0}

\* C15: when the validation of a scope's Frame-Attached-To graph returns no
\* error, no vertex lies on a cycle, the chain of outgoing edges from every
\* vertex ends within vertex-count hops at exactly one sink, that sink is a
\* link or a world, and resolving a frame's body a second time gives the
\* body the first resolution gave, the sink's.
C15_AttachedValid ==
  (aErrors.built /\ aErrors.validate = << >>) =>
    /\ \A i \in 1 .. Len(aFrames) :
         /\ i \notin AttachedBelow(aFrames, i)
         /\ Cardinality(AttachedSinks(aFrames, i)) = 1
         /\ \A j \in AttachedSinks(aFrames, i) :
              aFrames[j].kind \in {"link", "world"}
    /\ aBody.frame # 0 =>
         /\ \E j \in AttachedSinks(aFrames, aBody.frame) :
              aBody.body = aFrames[j].name
         /\ aBody.before \in {"-", aBody.body}

\* X attached to Y, Y attached to the model's frame, that to link A, and
\* X resolved twice
C15_Witness ==
  /\ aErrors.built /\ aErrors.validate = << >>
  /\ Len(aFrames) = MaxElems
  /\ \E i \in 1 .. Len(aFrames) :
       /\ aFrames[i].kind = "frame"
       /\ AttachedEdge(aFrames, i) # 0
       /\ aFrames[AttachedEdge(aFrames, i)].kind # "link"
       /\ aBody.frame = i
       /\ aBody.body = "A" /\ aBody.before = "A"

\* Root::Load has gone past its version check
VersionOk == sdf.second /\ sdf.first = SdfProtocolVersion

\* C11: a <world> that loads without errors under the name of a world
\* already loaded without errors is skipped: the names of the worlds in the
\* Root's world list (WorldCount, WorldByIndex) are pairwise distinct.
C11_DuplicateWorldSkipped ==
  \A i, j \in 1 .. Len(worlds) :
    (i < j /\ worlds[i].loadErrors = << >> /\ worlds[j].loadErrors = << >>) =>
      worlds[i].name # worlds[j].name

\* C12: after a model is loaded, the name of every explicit <frame> names
\* one vertex of the frame graph and no more: a second vertex under a name
\* the graph has is refused.
C12_VertexNamesUnique ==
  (pc = "done" /\ hasModel) =>
    \A i \in 1 .. Len(decls) :
      decls[i].kind = "frame" =>
        Cardinality(Vertices(frameGraph, decls[i].name)) = 1

\* s is t with some of its elements left out
RECURSIVE IsSubSeq(_, _)
IsSubSeq(s, t) ==
  IF s = << >> THEN TRUE
  ELSE IF t = << >> THEN FALSE
  ELSE IF Head(s) = Head(t) THEN IsSubSeq(Tail(s), Tail(t))
  ELSE IsSubSeq(s, Tail(t))

Count(seq, x) == Cardinality({i \in 1 .. Len(seq) : seq[i] = x})

\* the errors of the first k worlds' loads, graph builds and validations
RECURSIVE WorldsProduced(_)
WorldsProduced(k) ==
  IF k = 0 THEN << >> ELSE WorldsProduced(k - 1) \o worlds[k].loadErrors

\* the errors of the model's load and of its graphs
ModelProduced ==
  IF ~hasModel THEN << >>
  ELSE mErrors
         \o buildFrameAttachedToGraph(ModelAttachedFrames(mName, decls))
         \o validateFrameAttachedToGraph(ModelAttachedFrames(mName, decls))
         \o BuildPoseErrors(decls, mName)
         \o ValidatePoseErrors(decls, mName)

\* every error a child of the document produced, in processing order
Produced ==
  WorldsProduced(Len(worlds)) \o ModelProduced \o lightErrors \o actorErrors

\* the worlds that bear the name of an earlier world
DuplicateWorlds ==
  {j \in 1 .. Len(worlds) : \E i \in 1 .. j - 1 :
     worlds[i].name = worlds[j].name}

\* the errors of the children are all in the list Root::Load returns, in
\* processing order
ErrorsInOrder == (pc = "done" /\ VersionOk) => IsSubSeq(Produced, errors)

\* C14: the list Root::Load returns holds every error of the worlds, their
\* graphs, the model, the light and the actor, in processing order, and one
\* DUPLICATE_NAME for every world that bears the name of an earlier world,
\* also when that world produced other errors.
C14_AllErrorsReturned ==
  (pc = "done" /\ VersionOk) =>
    /\ IsSubSeq(Produced, errors)
    /\ Count(errors, "DUPLICATE_NAME") >=
         Cardinality(DuplicateWorlds) + Count(Produced, "DUPLICATE_NAME")

\* C16: after a model is loaded with every pose frame found, the frame
\* graph holds two edges for every link and explicit frame, every edge has
\* its reverse with the opposite sign, and no two edges have the same tail
\* and head.
C16_TwoEdgesPerFrame ==
  (pc = "done" /\ hasModel /\ CleanLoad) =>
    /\ Len(frameGraph.edges) = 2 * Len(decls)
    /\ \A e \in 1 .. Len(frameGraph.edges) :
         \E f \in 1 .. Len(frameGraph.edges) :
           /\ frameGraph.edges[f].tail = frameGraph.edges[e].head
           /\ frameGraph.edges[f].head = frameGraph.edges[e].tail
           /\ frameGraph.edges[f].data = 0 - frameGraph.edges[e].data
    /\ \A e, f \in 1 .. Len(frameGraph.edges) :
         (e # f /\ frameGraph.edges[e].tail = frameGraph.edges[f].tail) =>
           frameGraph.edges[e].head # frameGraph.edges[f].head

\* the count and the reverse edges alone
C16_CountAndReverse ==
  (pc = "done" /\ hasModel /\ CleanLoad) =>
    /\ Len(frameGraph.edges) = 2 * Len(decls)
    /\ \A e \in 1 .. Len(frameGraph.edges) :
         \E f \in 1 .. Len(frameGraph.edges) :
           /\ frameGraph.edges[f].tail = frameGraph.edges[e].head
           /\ frameGraph.edges[f].head = frameGraph.edges[e].tail
           /\ frameGraph.edges[f].data = 0 - frameGraph.edges[e].data

\* every element of the model has a name, and every pose frame named in
\* the model is the model or an element of it
AllDeclared ==
  \A i \in 1 .. Len(decls) :
    /\ decls[i].name # ""
    /\ decls[i].relTo \in DeclNames(decls) \cup {mName}

\* C17: when every pose frame named in a model is declared somewhere in
\* the model, before or after the element that names it, the load finds
\* it: every link and explicit frame has its edge to the vertex its pose
\* frame names.
C17_OrderIndependent ==
  (pc \in {"lights", "done", "crashed"} /\ lastQuery = NoQuery
   /\ hasModel /\ AllDeclared) =>
    /\ pc # "crashed"
    /\ \A i \in 1 .. Len(decls) :
         /\ ~decls[i].empty
         /\ decls[i].parent = SetMin(Vertices(frameGraph, decls[i].relTo))

\* es is what the world loop returns for the worlds from the k-th on: for
\* a world with errors its errors and one ELEMENT_INVALID, for a world
\* without errors nothing or one DUPLICATE_NAME
RECURSIVE WorldsMatch(_, _)
WorldsMatch(k, es) ==
  IF k > Len(worlds) THEN es = << >>
  ELSE LET w == worlds[k].loadErrors
       IN IF w = << >>
          THEN \/ WorldsMatch(k + 1, es)
               \/ /\ es # << >>
                  /\ Head(es) = "DUPLICATE_NAME"
                  /\ WorldsMatch(k + 1, Tail(es))
          ELSE /\ Len(es) > Len(w)
               /\ SubSeq(es, 1, Len(w)) = w
               /\ es[Len(w) + 1] = "ELEMENT_INVALID"
               /\ WorldsMatch(k + 1, SubSeq(es, Len(w) + 2, Len(es)))

\* C18: the k-th world of the world list has the k-th graph of each of the
\* two graph lists, built and validated, whether or not the world has
\* errors; the three lists have one length; and while the worlds are read
\* the error list is, world after world, the world's errors followed by one
\* ELEMENT_INVALID.
C18_WorldGraphs ==
  /\ Len(worldFrameAttachedToGraphs) = Len(worlds)
  /\ Len(worldPoseRelativeToGraphs) = Len(worlds)
  /\ \A k \in 1 .. Len(worlds) :
       /\ worlds[k].frameAttachedToGraph = k
       /\ worlds[k].poseRelativeToGraph = k
       /\ worldFrameAttachedToGraphs[k].built
       /\ worldFrameAttachedToGraphs[k].validated
       /\ worldPoseRelativeToGraphs[k].built
       /\ worldPoseRelativeToGraphs[k].validated
  /\ pc = "worlds" => WorldsMatch(1, errors)

\* a world without errors, then a world with errors, then a world again
C18_Witness ==
  /\ pc = "worlds"
  /\ Len(worlds) = 3
  /\ worlds[1].loadErrors = << >>
  /\ Len(worlds[2].loadErrors) > 1
  /\ Len(worldFrameAttachedToGraphs) = 3
  /\ Count(errors, "ELEMENT_INVALID") = 1

\* C20: for a source and a destination that are vertices of the frame
\* graph, connected or not, the same or not, the walk of Link::Pose ends
\* after at least one and at most vertex-count iterations, and every
\* vertex id it looks up has its entry in the result of Dijkstra.
C20_WalkTerminates ==
  (/\ Queried
   /\ lastQuery.frame # ""
   /\ Vertices(frameGraph, QLink.name) # {}
   /\ Vertices(frameGraph, lastQuery.frame) # {}) =>
    /\ lastQuery.out.kind = "returned"
    /\ lastQuery.out.iters >= 1
    /\ lastQuery.out.iters <= Len(frameGraph.vertices)
    /\ ~lastQuery.out.ub

\* a walk of two iterations that reaches the source
C20_Witness ==
  /\ Queried
  /\ lastQuery.frame # ""
  /\ Vertices(frameGraph, QLink.name) # {}
  /\ Vertices(frameGraph, lastQuery.frame) # {}
  /\ lastQuery.out.kind = "returned"
  /\ ~lastQuery.out.err
  /\ lastQuery.out.iters = 2

\* a walk between two vertices that no path connects
C20_Disconnected ==
  /\ Queried
  /\ lastQuery.frame # ""
  /\ Vertices(frameGraph, QLink.name) # {}
  /\ Vertices(frameGraph, lastQuery.frame) # {}
  /\ ~Connected(frameGraph, SetMin(Vertices(frameGraph, QLink.name)),
                SetMin(Vertices(frameGraph, lastQuery.frame)))
  /\ lastQuery.out.err

\* C13: Link::Load of a new Link with an element that is no <link> returns
\* the one error ELEMENT_INCORRECT_TYPE, leaves the frame graph as it was
\* and the link's name, pose and pose frame at their defaults; Model::Load
\* of a new Model with an element that is no <model> returns that one
\* error, with no vertex or edge in the frame graph, no frame or link read
\* and name and pose at their defaults.
C13_WrongTag ==
  /\ lastLoad.tag \notin {"none", "link"} =>
       /\ lastLoad.errors = <<"ELEMENT_INCORRECT_TYPE">>
       /\ ~lastLoad.crashed
       /\ frameGraph = lastLoad.before
       /\ lastLoad.link = NewLink
  /\ mTag \notin {"none", "model"} =>
       /\ pc \in {"loaded", "crashed"}
       /\ mErrors = <<"ELEMENT_INCORRECT_TYPE">>
       /\ decls = << >> /\ links = << >> /\ edgesToAdd = << >>
       /\ calls = 0 => (mName = "" /\ mPose = PoseZero)
       /\ lastLoad.tag \in {"none", "joint"} => frameGraph = EmptyGraph

\* a model with two vertices or more is loaded, and Link::Load is given a
\* <joint>
C13_Witness ==
  /\ mTag = "model"
  /\ lastLoad.tag = "joint"
  /\ Len(frameGraph.vertices) >= 2
  /\ Len(frameGraph.edges) >= 2

\* Model::Load is given a <world>
C13_ModelWitness == mTag = "world" /\ pc = "loaded"

\* the frame graph stays as Model::Load left it
GraphAsLoaded ==
  (atLoad.loaded /\ lastLoad = NoLoad) => frameGraph = atLoad.frameGraph

\* the links bear the names they were loaded with
NamesAsLoaded ==
  \A i \in 1 .. Len(links) : links[i].name = atLoad.links[i].name

\* C19: once Model::Load has returned, no setter and no pose query changes
\* the frame graph, and what a pose query returns is what it returns for
\* the links as they were loaded, whatever poses and pose frames were set
\* since.
C19_GraphFixedAfterLoad ==
  (atLoad.loaded /\ lastLoad = NoLoad /\ NamesAsLoaded) =>
    /\ frameGraph = atLoad.frameGraph
    /\ Queried =>
         lastQuery.out \in LinkPose(atLoad.frameGraph,
                                    atLoad.links[lastQuery.link],
                                    lastQuery.frame)
====
